---- MODULE Spec2Model ----
(***************************************************************************)
(* Teacher-forcing log-odds scorer of shap:                                *)
(*   shap/models/_teacher_forcing_logits.py    (row cache, __call__)       *)
(*   shap/models/_pt_teacher_forcing_logits.py (PyTorch engine, converter) *)
(*                                                                         *)
(* Values.  A token id is a natural number.  A tensor of shape (1, n) is   *)
(* the sequence of its n ids.  Python's None is the id Null, a missing     *)
(* attribute (hasattr false) is the id Absent.  An input row is a record   *)
(* [type, v]: type is "str" or "ndarray", v the characters / elements.     *)
(* A logit vector of one position is kept symbolically as what the model   *)
(* conditioned it on: [enc |-> encoder input, prefix |-> the ids the       *)
(* decoder had read up to and including that position].                    *)
(***************************************************************************)
EXTENDS Integers, Sequences, FiniteSets, TLC

\* ------------------------------------------------------------ bounds
MaxBatch == 2          \* pairs in one __call__
MaxSource == 2         \* words of a masked input
ArrLen == 2            \* elements of an array row
VocabSize == 3         \* token ids are 0 .. VocabSize-1

\* ------------------------------------------------------------ values
Null == -1             \* None
Absent == -2           \* the attribute does not exist
NoneSeq == <<Null>>    \* None where a tensor is expected
NoneNames == <<"None">>
NoneRow == [type |-> "NoneType", v |-> <<>>]

Flags == {"absent", "True", "False"}
AttrValues(id) == {Absent, Null, id}

SeqsUpTo(S, n) == UNION {[1 .. m -> S] : m \in 0 .. n}

\* text rows "", "a", "ba"; array rows 0..0 1..1 of ArrLen elements
TextRows == {[type |-> "str", v |-> s] : s \in {<<>>, <<0>>, <<1, 0>>}}
ArrayRows ==
  {[type |-> "ndarray", v |-> [i \in 1 .. ArrLen |-> IF i <= z THEN 0 ELSE 1]] :
     z \in 0 .. ArrLen}
MaskedInputs == SeqsUpTo({1}, MaxSource)

\* the similarity model's configuration objects (decoder: the sub-configuration)
Configs ==
  {c \in [is_encoder_decoder : Flags, is_decoder : Flags,
          decoder_start_token_id : AttrValues(0),
          bos_token_id : AttrValues(VocabSize),
          has_decoder : BOOLEAN,
          decoder_bos_token_id : AttrValues(VocabSize + 1)] :
     ~c.has_decoder => c.decoder_bos_token_id = Absent}

VARIABLES
  config,               \* self.similarity_model.config
  model_agnostic,       \* self.model_agnostic
  X,                    \* self.X
  target_sentence_ids,  \* self.target_sentence_ids
  output_names,         \* self.output_names
  pc,                   \* "idle" | "update" | "score"
  masked_X, Xs,         \* the arguments of the last __call__
  k,                    \* index of the pair being processed (1-based)
  output_batch,         \* the local list of __call__
  result,               \* what the last __call__ returned
  err,                  \* "pending", "none" (returned) or the exception raised
  providerCalls,        \* provider invocations since the __call__ began
  forwardCalls,         \* forward passes since the __call__ began
  encodeCalls,          \* tokenizer.encode calls since the __call__ began
  lastForward,          \* arguments of the last forward pass
  logits                \* the last Logit Tensor the engine returned

vars == <<config, model_agnostic, X, target_sentence_ids, output_names, pc,
          masked_X, Xs, k, output_batch, result, err, providerCalls,
          forwardCalls, encodeCalls, lastForward, logits>>

\* ------------------------------------------------------------ collaborators
\* generation_function_for_target_sentence_ids: deterministic per row
Provider(row) ==
  IF row.type = "str"
  THEN [i \in 1 .. Len(row.v) |-> (row.v[i] + 1) % VocabSize]
  ELSE [i \in 1 .. Len(row.v) |-> (row.v[Len(row.v) + 1 - i] + 2 * i) % VocabSize]

\* similarity_tokenizer.decode([id]).strip()
Vocab == <<"tok0", "tok1", "tok2", "tok3", "tok4">>
Decode(id) == Vocab[id + 1]

\* similarity_tokenizer.encode(text): one id per word
Encode(text) == [i \in 1 .. Len(text) |-> (text[i] + i) % VocabSize]

\* self.model(X) of the model-agnostic case: the explained function's text
ExplainedModel(text) == IF Len(text) = 0 THEN <<1>> ELSE Tail(text)

\* one forward pass: a logit vector per input position
ModelLogits(enc, ids) ==
  [p \in 1 .. Len(ids) |-> [enc |-> enc, prefix |-> SubSeq(ids, 1, p)]]

NoForward == [proto |-> "none", input_ids |-> NoneSeq,
              decoder_input_ids |-> NoneSeq, labels |-> NoneSeq]

\* ------------------------------------------------------------ PTTeacherForcingLogits
\* get_source_sentence_ids
GetSourceSentenceIds(agnostic, m) ==
  IF agnostic THEN Encode(ExplainedModel(m)) ELSE Encode(m)

\* the architecture check that raises the configuration error
ArchitectureUnset(cfg) ==
  /\ cfg.is_encoder_decoder # "absent" /\ cfg.is_encoder_decoder # "True"
  /\ cfg.is_decoder # "absent" /\ cfg.is_decoder # "True"

\* faulty variant: the top-level bos id is tried before decoder_start_token_id
DecoderStartTokenIdBosFirst(cfg) ==
  IF cfg.bos_token_id # Absent /\ cfg.bos_token_id # Null
  THEN cfg.bos_token_id
  ELSE IF cfg.decoder_start_token_id # Absent /\ cfg.decoder_start_token_id # Null
  THEN cfg.decoder_start_token_id
  ELSE IF /\ cfg.has_decoder
          /\ cfg.decoder_bos_token_id # Absent
          /\ cfg.decoder_bos_token_id # Null
  THEN cfg.decoder_bos_token_id
  ELSE Null

\* the start id of the encoder-decoder protocol; Null: none can be resolved
DecoderStartTokenId(cfg) ==
  IF cfg.decoder_start_token_id # Absent /\ cfg.decoder_start_token_id # Null
  THEN cfg.decoder_start_token_id
  ELSE IF cfg.bos_token_id # Absent /\ cfg.bos_token_id # Null
  THEN cfg.bos_token_id
  ELSE IF /\ cfg.has_decoder
          /\ cfg.decoder_bos_token_id # Absent
          /\ cfg.decoder_bos_token_id # Null
  THEN cfg.decoder_bos_token_id
  ELSE Null

\* faulty variant: the start id is appended instead of prepended
DecoderInputStartLast(start, target) == target \o <<start>>

\* torch.cat((target_sentence_start_id, target_sentence_ids), dim=-1)
DecoderInput(start, target) == <<start>> \o target

\* the decoder-only source: an empty one becomes [bos]; Null: no bos to use
HasBos(cfg) == cfg.bos_token_id # Absent /\ cfg.bos_token_id # Null
\* faulty variant: the bos id is prepended to every source, empty or not
DecoderOnlySourceAlwaysBos(cfg, source) ==
  IF HasBos(cfg) THEN <<cfg.bos_token_id>> \o source
  ELSE IF Len(source) = 0 THEN NoneSeq ELSE source

DecoderOnlySource(cfg, source) ==
  IF Len(source) = 0
  THEN (IF HasBos(cfg) THEN <<cfg.bos_token_id>> ELSE NoneSeq)
  ELSE source

\* faulty variant: the slice starts at shape[1] instead of shape[1] - 1
SliceLogitsFromSourceLen(out, sourceLen) == SubSeq(out, sourceLen + 1, Len(out))

\* outputs.logits[:, source_sentence_ids.shape[1] - 1 :, :]
SliceLogits(out, sourceLen) == SubSeq(out, sourceLen, Len(out))

Failure(e) == [err |-> e, passes |-> 0, fwd |-> NoForward, logits |-> <<>>]

EncoderDecoderLogits(cfg, source, target) ==
  LET start == DecoderStartTokenId(cfg) IN
  IF start = Null THEN Failure("ValueError: no start token")
  ELSE IF target = NoneSeq THEN Failure("TypeError")
  ELSE LET dec == DecoderInput(start, target) IN
       [err |-> "none", passes |-> 1,
        fwd |-> [proto |-> "encoder-decoder", input_ids |-> source,
                 decoder_input_ids |-> dec, labels |-> dec],
        logits |-> ModelLogits(source, dec)]

DecoderOnlyLogits(cfg, source, target) ==
  LET src == DecoderOnlySource(cfg, source) IN
  IF src = NoneSeq THEN Failure("ValueError: no bos token")
  ELSE IF target = NoneSeq THEN Failure("TypeError")
  ELSE LET combined == src \o target IN
       [err |-> "none", passes |-> 1,
        fwd |-> [proto |-> "decoder-only", input_ids |-> combined,
                 decoder_input_ids |-> NoneSeq, labels |-> NoneSeq],
        logits |-> SliceLogits(ModelLogits(<<>>, combined), Len(src))]

GetTeacherForcedLogits(cfg, source, target) ==
  IF ArchitectureUnset(cfg) THEN Failure("ValueError: no architecture")
  ELSE IF cfg.is_encoder_decoder = "absent" THEN Failure("AttributeError")
  ELSE IF cfg.is_encoder_decoder = "True"
  THEN EncoderDecoderLogits(cfg, source, target)
  ELSE DecoderOnlyLogits(cfg, source, target)

\* faulty variant: the loop starts at position 1
GetLogoddsSkipFirst(lg, target) ==
  [i \in 1 .. (Len(lg) - 2) |-> [dist |-> lg[i + 1], token |-> target[i + 1]]]

\* faulty variant: the distribution of position i+1 is read for token i
GetLogoddsNextPosition(lg, target) ==
  [i \in 1 .. (Len(lg) - 1) |-> [dist |-> lg[i + 1], token |-> target[i]]]

\* get_logodds: logit(softmax(logits[0][i]))[target_sentence_ids[0, i]]
GetLogodds(lg, target) ==
  [i \in 1 .. (Len(lg) - 1) |-> [dist |-> lg[i], token |-> target[i]]]

\* get_output_names_and_update_target_sentence_ids: the decoded names
OutputNames(ids) == [i \in 1 .. Len(ids) |-> Decode(ids[i])]

\* ------------------------------------------------------------ TeacherForcingLogits
\* the condition of update_cache_X
NeedsUpdate(cached, x) ==
  \/ cached = NoneRow
  \/ cached.type = "ndarray" /\ \A i \in 1 .. Len(cached.v) : cached.v[i] # x.v[i]
  \/ cached.type = "str" /\ cached # x

\* ------------------------------------------------------------ state machine
SameType(xs, cached) ==
  /\ \A i, j \in 1 .. Len(xs) : xs[i].type = xs[j].type
  /\ \A i \in 1 .. Len(xs) : cached = NoneRow \/ xs[i].type = cached.type

Fresh ==
  /\ X = NoneRow
  /\ target_sentence_ids = NoneSeq
  /\ output_names = NoneNames
  /\ pc = "idle"
  /\ masked_X = <<>> /\ Xs = <<>>
  /\ k = 0
  /\ output_batch = <<>>
  /\ result = <<>>
  /\ err = "pending"
  /\ providerCalls = 0
  /\ forwardCalls = 0
  /\ encodeCalls = 0
  /\ lastForward = NoForward
  /\ logits = <<>>

\* faulty variant: the failure is caught and the vectors so far are returned
RaiseReturningPartial(e) ==
  /\ pc' = "idle"
  /\ err' = e
  /\ k' = 0
  /\ output_batch' = <<>>
  /\ result' = output_batch
  /\ UNCHANGED <<config, model_agnostic, masked_X, Xs>>

\* an exception leaves __call__: its locals are gone, nothing is returned
Raise(e) ==
  /\ pc' = "idle"
  /\ err' = e
  /\ k' = 0
  /\ output_batch' = <<>>
  /\ UNCHANGED <<config, model_agnostic, masked_X, Xs, result>>

\* __call__(masked_X, X): entry, output_batch = []
Call(ms, xs) ==
  /\ pc = "idle"
  /\ Len(ms) = Len(xs)
  /\ SameType(xs, X)
  /\ masked_X' = ms /\ Xs' = xs
  /\ k' = 1
  /\ output_batch' = <<>>
  /\ result' = <<>>
  /\ err' = "pending"
  /\ providerCalls' = 0
  /\ forwardCalls' = 0
  /\ encodeCalls' = 0
  /\ lastForward' = NoForward
  /\ logits' = <<>>
  /\ pc' = "update"
  /\ UNCHANGED <<config, model_agnostic, X, target_sentence_ids, output_names>>

\* self.update_cache_X(x) for the k-th pair; the provider or the decoding of
\* the names may raise
UpdateCacheX ==
  /\ pc = "update"
  /\ k <= Len(Xs)
  /\ IF NeedsUpdate(X, Xs[k])
     THEN /\ X' = Xs[k]
          /\ providerCalls' = providerCalls + 1
          /\ \E outcome \in {"ok", "provider raises", "decode raises"} :
               \/ /\ outcome = "ok"
                  /\ target_sentence_ids' = Provider(Xs[k])
                  /\ output_names' = OutputNames(Provider(Xs[k]))
                  /\ pc' = "score"
                  /\ UNCHANGED <<config, model_agnostic, masked_X, Xs, k,
                                 output_batch, result, err>>
               \/ /\ outcome = "provider raises"
                  /\ UNCHANGED <<target_sentence_ids, output_names>>
                  /\ Raise("ProviderError")
               \/ /\ outcome = "decode raises"
                  /\ target_sentence_ids' = Provider(Xs[k])
                  /\ UNCHANGED output_names
                  /\ Raise("DecodeError")
     ELSE /\ pc' = "score"
          /\ UNCHANGED <<config, model_agnostic, X, target_sentence_ids,
                         output_names, masked_X, Xs, k, output_batch, result,
                         err, providerCalls>>
  /\ UNCHANGED <<forwardCalls, encodeCalls, lastForward, logits>>

\* the rest of the loop body: source ids, teacher-forced logits, log odds, append
ScorePair ==
  /\ pc = "score"
  /\ LET source == GetSourceSentenceIds(model_agnostic, masked_X[k])
         r == GetTeacherForcedLogits(config, source, target_sentence_ids)
     IN IF r.err # "none"
        THEN /\ Raise(r.err)
             /\ UNCHANGED <<forwardCalls, lastForward, logits>>
        ELSE /\ forwardCalls' = forwardCalls + r.passes
             /\ lastForward' = r.fwd
             /\ logits' = r.logits
             /\ output_batch' =
                  Append(output_batch, GetLogodds(r.logits, target_sentence_ids))
             /\ k' = k + 1
             /\ pc' = "update"
             /\ UNCHANGED <<config, model_agnostic, masked_X, Xs, result, err>>
  /\ encodeCalls' = encodeCalls + 1
  /\ UNCHANGED <<X, target_sentence_ids, output_names, providerCalls>>

\* return np.array(output_batch)
Return ==
  /\ pc = "update"
  /\ k > Len(Xs)
  /\ result' = output_batch
  /\ err' = "none"
  /\ pc' = "idle"
  /\ k' = 0
  /\ output_batch' = <<>>
  /\ UNCHANGED <<config, model_agnostic, X, target_sentence_ids, output_names,
                 masked_X, Xs, providerCalls, forwardCalls, encodeCalls,
                 lastForward, logits>>

\* batches of one row type, at most MaxBatch pairs
Batches(rows) ==
  {b \in [ms : SeqsUpTo(MaskedInputs, MaxBatch), xs : SeqsUpTo(rows, MaxBatch)] :
     Len(b.ms) = Len(b.xs)}

\* explanation sessions over text rows or array rows
SessionConfigs ==
  {c \in Configs :
     /\ c.is_encoder_decoder # "absent" /\ c.is_decoder # "absent"
     /\ c.decoder_start_token_id = Absent
     /\ c.bos_token_id # Absent
     /\ ~c.has_decoder}

Init ==
  /\ config \in SessionConfigs
  /\ model_agnostic = FALSE
  /\ Fresh

CallAny ==
  \E b \in Batches(TextRows) \cup Batches(ArrayRows) : Call(b.ms, b.xs)

Next == CallAny \/ UpdateCacheX \/ ScorePair \/ Return

Spec == Init /\ [][Next]_vars

\* the engine on every configuration: one pair per call, text rows
InitEngine ==
  /\ config \in Configs
  /\ model_agnostic \in BOOLEAN
  /\ Fresh

CallOne ==
  \E m \in MaskedInputs, x \in TextRows : Call(<<m>>, <<x>>)

NextEngine == CallOne \/ UpdateCacheX \/ ScorePair \/ Return

SpecEngine == InitEngine /\ [][NextEngine]_vars

\* batches of text rows whose masked inputs are "" or one word
ShortBatches ==
  {b \in [ms : SeqsUpTo(SeqsUpTo({1}, 1), MaxBatch), xs : SeqsUpTo(TextRows, MaxBatch)] :
     Len(b.ms) = Len(b.xs)}

CallShort == \E b \in ShortBatches : Call(b.ms, b.xs)

NextBatch == CallShort \/ UpdateCacheX \/ ScorePair \/ Return

SpecBatch == Init /\ [][NextBatch]_vars

\* ------------------------------------------------------------ properties
\* the step of __call__ that runs update_cache_X on the k-th original row
AtUpdate == pc = "update" /\ k <= Len(Xs)

\* C1: the provider is invoked exactly once by every update_cache_X whose
\* incoming row differs by value from the cached row (nothing cached, a new
\* row, a return to an earlier row), and not at all while the row is the same.
C1_ProviderOncePerRowChange ==
  [][AtUpdate =>
       providerCalls' = providerCalls + (IF Xs[k] # X THEN 1 ELSE 0)]_vars

\* C2: when the cached row differs from the incoming row (an array row with
\* any element different, a text row different by value, or nothing cached)
\* update_cache_X makes the incoming row the cached row, and the target
\* sequence and output names it leaves on success are generated from it.
C2_DifferentRowUpdatesCache ==
  [][(AtUpdate /\ Xs[k] # X) =>
       /\ X' = Xs[k]
       /\ pc' = "score" =>
            /\ target_sentence_ids' = Provider(Xs[k])
            /\ output_names' = OutputNames(Provider(Xs[k]))]_vars

\* the Log-Odds Vector of masked input m scored against the target of row x
VectorFor(m, x) ==
  LET r == GetTeacherForcedLogits(config,
             GetSourceSentenceIds(model_agnostic, m), Provider(x))
  IN GetLogodds(r.logits, Provider(x))

\* C3: a __call__ that returns, returns one vector per pair, the k-th being
\* the one of the k-th masked input and the target sequence of the k-th
\* original row; with all original rows equal the provider ran at most once.
C3_BatchOrdering ==
  (pc = "idle" /\ err = "none") =>
     /\ Len(result) = Len(masked_X)
     /\ \A i \in 1 .. Len(result) : result[i] = VectorFor(masked_X[i], Xs[i])
     /\ (\A i, j \in 1 .. Len(Xs) : Xs[i] = Xs[j]) => providerCalls <= 1

\* C10: between operations the three cache fields are all unset, or hold a
\* row together with the target sequence and the output names of that row.
C10_CacheIsRowScoped ==
  pc = "idle" =>
     \/ X = NoneRow /\ target_sentence_ids = NoneSeq /\ output_names = NoneNames
     \/ /\ X # NoneRow
        /\ target_sentence_ids = Provider(X)
        /\ output_names = OutputNames(Provider(X))

\* ---- the engine and the converter, one pair per call (SpecEngine)
\* the pair of the last call was scored: its forward pass ran and returned
Scored == forwardCalls = 1 /\ Len(masked_X) = 1
\* the source ids of that pair
SourceIds == GetSourceSentenceIds(model_agnostic, masked_X[1])
\* the last call reached get_teacher_forced_logits and has ended
EngineEnded ==
  pc = "idle" /\ err \notin {"pending", "ProviderError", "DecodeError"}
EncoderDecoder == config.is_encoder_decoder = "True"
DecoderOnly == config.is_encoder_decoder = "False" /\ config.is_decoder # "False"
\* 0-based position, in the sequence the model read, of a logit vector
Position(lv) == Len(lv.prefix) - 1

\* C4 as stated: a Target Sequence of length L gives L-1 log odds.
C4_LogOddsLengthLMinusOne ==
  (pc = "idle" /\ err = "none" /\ Len(result) = 1) =>
     Len(result[1]) = Len(target_sentence_ids) - 1

\* C4, amended: in both protocols and for every source, a Target Sequence of
\* length L gives a Log-Odds Vector of length L, one value per target token.
C4_LogOddsLengthL ==
  (pc = "idle" /\ err = "none" /\ Len(result) = 1) =>
     Len(result[1]) = Len(target_sentence_ids)

C4_Witness ==
  /\ pc = "idle" /\ err = "none" /\ Len(result) = 1
  /\ DecoderOnly
  /\ Len(target_sentence_ids) = 2 /\ Len(result[1]) = 2

\* C5 as stated: decoder-only, source of length S > 0, target of length L:
\* one forward pass on source+target, and the logits returned are those of
\* the L positions S-1 .. S+L-2.
C5_SliceHasLPositions ==
  (Scored /\ DecoderOnly /\ Len(SourceIds) > 0) =>
     /\ lastForward.input_ids = SourceIds \o target_sentence_ids
     /\ Len(logits) = Len(target_sentence_ids)
     /\ \A i \in 1 .. Len(logits) : Position(logits[i]) = Len(SourceIds) - 2 + i

\* C5, amended: the logits returned are those of the L+1 positions
\* S-1 .. S+L-1 of the combined sequence, in order; every position before
\* S-1 is discarded.
C5_SliceHasLPlusOnePositions ==
  (Scored /\ DecoderOnly /\ Len(SourceIds) > 0) =>
     /\ lastForward.input_ids = SourceIds \o target_sentence_ids
     /\ Len(lastForward.input_ids) = Len(SourceIds) + Len(target_sentence_ids)
     /\ Len(logits) = Len(target_sentence_ids) + 1
     /\ \A i \in 1 .. Len(logits) :
          /\ Position(logits[i]) = Len(SourceIds) - 2 + i
          /\ logits[i].prefix = SubSeq(lastForward.input_ids, 1, Len(SourceIds) - 1 + i)

C5_Witness ==
  /\ Scored /\ DecoderOnly
  /\ Len(SourceIds) = 2 /\ Len(target_sentence_ids) = 2
  /\ Len(logits) = 3 /\ Position(logits[1]) = 1

\* C6: encoder-decoder: the decoder input and the labels of the forward pass
\* are the resolved start id followed by the cached target ids, the encoder
\* input is the source, the logits have L+1 positions, and the cached Target
\* Sequence is still the L ids without the start id.
C6_EncoderDecoderAlignment ==
  (Scored /\ EncoderDecoder) =>
     /\ lastForward.decoder_input_ids = <<DecoderStartTokenId(config)>> \o target_sentence_ids
     /\ lastForward.labels = lastForward.decoder_input_ids
     /\ lastForward.input_ids = SourceIds
     /\ Len(lastForward.decoder_input_ids) = Len(target_sentence_ids) + 1
     /\ Len(logits) = Len(target_sentence_ids) + 1

\* a later call for the row already cached: the provider did not run again
C6_Witness ==
  /\ Scored /\ EncoderDecoder /\ providerCalls = 0
  /\ target_sentence_ids = Provider(X) /\ Len(target_sentence_ids) = 2
  /\ Len(lastForward.decoder_input_ids) = 3 /\ Len(logits) = 3

\* C7: a configuration that sets neither is_encoder_decoder nor is_decoder
\* to true makes get_teacher_forced_logits fail with the configuration error
\* and without any forward pass.
C7_NoArchitectureFails ==
  (config.is_encoder_decoder # "True" /\ config.is_decoder # "True") =>
     /\ forwardCalls = 0
     /\ EngineEnded => err = "ValueError: no architecture"

\* the candidate start ids in priority order, Null where absent or None
StartCandidates ==
  <<IF config.decoder_start_token_id = Absent THEN Null
    ELSE config.decoder_start_token_id,
    IF config.bos_token_id = Absent THEN Null ELSE config.bos_token_id,
    IF ~config.has_decoder \/ config.decoder_bos_token_id = Absent THEN Null
    ELSE config.decoder_bos_token_id>>
NonNullCandidates == {i \in 1 .. 3 : StartCandidates[i] # Null}
FirstNonNull ==
  StartCandidates[CHOOSE i \in NonNullCandidates :
                    \A j \in NonNullCandidates : i <= j]

\* C8: encoder-decoder: the start id fed to the decoder is the first non-null
\* of decoder_start_token_id, bos_token_id, decoder.bos_token_id; with none,
\* the call fails with the missing-start-token error before any forward pass.
C8_StartTokenResolution ==
  EncoderDecoder =>
     /\ (Scored /\ NonNullCandidates # {}) =>
          lastForward.decoder_input_ids[1] = FirstNonNull
     /\ NonNullCandidates = {} =>
          /\ forwardCalls = 0
          /\ EngineEnded => err = "ValueError: no start token"

C8_Witness ==
  /\ Scored /\ EncoderDecoder
  /\ config.decoder_start_token_id = Null /\ config.bos_token_id = Absent
  /\ lastForward.decoder_input_ids[1] = config.decoder_bos_token_id

\* C9: decoder-only: an empty source with a non-null bos id b is replaced by
\* [b], the model runs on [b]+target and the slice starts at position 0; an
\* empty source without one fails with the missing-start-token error and no
\* forward pass; a non-empty source is passed unaltered.
C9_EmptySourceHandling ==
  (DecoderOnly /\ Len(masked_X) = 1) =>
     /\ (Scored /\ Len(SourceIds) = 0) =>
          /\ config.bos_token_id \notin {Absent, Null}
          /\ lastForward.input_ids = <<config.bos_token_id>> \o target_sentence_ids
          /\ Position(logits[1]) = 0
     /\ (Scored /\ Len(SourceIds) > 0) =>
          lastForward.input_ids = SourceIds \o target_sentence_ids
     /\ (Len(SourceIds) = 0 /\ config.bos_token_id \in {Absent, Null}) =>
          /\ forwardCalls = 0
          /\ EngineEnded => err = "ValueError: no bos token"

C9_Witness ==
  /\ Scored /\ DecoderOnly /\ Len(SourceIds) = 0
  /\ Len(target_sentence_ids) = 2
  /\ lastForward.input_ids = <<config.bos_token_id>> \o target_sentence_ids

\* ---- failures inside a batch (SpecBatch)
\* the step on which the running __call__ fails
Fails == pc # "idle" /\ err' \notin {"pending", "none"}

\* C11: when the k-th pair of a __call__ fails, the call ends at once with
\* that error and returns no vector; the provider ran for at most the first
\* k rows, the tokenizer for at most the first k masked inputs, the model
\* for exactly the k-1 pairs before; nothing runs until the next __call__.
C11_ErrorPropagation ==
  [][/\ Fails =>
          /\ pc' = "idle"
          /\ result' = <<>>
          /\ err' \in {"ProviderError", "DecodeError", "TypeError", "AttributeError",
                       "ValueError: no architecture", "ValueError: no start token",
                       "ValueError: no bos token"}
          /\ providerCalls' <= k
          /\ encodeCalls' <= k /\ encodeCalls' >= k - 1
          /\ forwardCalls' = k - 1
     /\ (pc = "idle" /\ err \notin {"pending", "none"}) =>
          /\ pc' = "update" /\ k' = 1
          /\ providerCalls' = 0 /\ encodeCalls' = 0 /\ forwardCalls' = 0]_vars

\* the second pair failed in the provider after the first pair was scored
C11_Witness ==
  /\ pc = "idle" /\ err = "ProviderError"
  /\ Len(Xs) = 2
  /\ providerCalls = 2 /\ encodeCalls = 1 /\ forwardCalls = 1
  /\ result = <<>>

\* ---- position / token alignment (SpecEngine)
\* the ids the model had read when it predicted the i-th target token: the
\* start id (encoder-decoder) or the source, [bos] for an empty one
\* (decoder-only), followed by the target tokens before the i-th
ContextOf(i) ==
  (IF EncoderDecoder THEN <<FirstNonNull>>
   ELSE IF Len(SourceIds) = 0 THEN <<config.bos_token_id>> ELSE SourceIds)
  \o SubSeq(target_sentence_ids, 1, i - 1)

\* C12: get_logodds emits P-1 values for P logit positions, one per target
\* token; the i-th value is read at the vocabulary index of the i-th cached
\* target id, from the logits of the i-th returned position, which is the
\* position that predicts that token: the one fed with the start id or the
\* last source token for the first, with the previous target token after.
C12_PositionTokenAlignment ==
  (pc = "idle" /\ err = "none" /\ Len(result) = 1) =>
     /\ Len(result[1]) = Len(logits) - 1
     /\ Len(result[1]) = Len(target_sentence_ids)
     /\ \A i \in 1 .. Len(result[1]) :
          /\ result[1][i].token = target_sentence_ids[i]
          /\ result[1][i].dist = logits[i]
          /\ logits[i].prefix = ContextOf(i)
          /\ logits[i].enc = (IF EncoderDecoder THEN SourceIds ELSE <<>>)
          /\ i > 1 => logits[i].prefix[Len(logits[i].prefix)] = target_sentence_ids[i - 1]

C12_Witness ==
  /\ pc = "idle" /\ err = "none" /\ Len(result) = 1
  /\ DecoderOnly /\ Len(SourceIds) = 2
  /\ Len(result[1]) = 2
  /\ result[1][2].token = target_sentence_ids[2]
  /\ result[1][2].dist.prefix = SourceIds \o <<target_sentence_ids[1]>>

====
